---- MODULE Spec2Model ----
(***************************************************************************)
(* GitHub Workflow Updater: the reference extractor (WorkflowParser), the   *)
(* version resolver (GitHubApiService) and the update command that drives  *)
(* them (updateWorkflowCommand).                                           *)
(*                                                                         *)
(* Text is modelled character by character: a string is a sequence of      *)
(* one-character strings, so that the regular expressions of the source    *)
(* are matched, not assumed.                                               *)
(***************************************************************************)
EXTENDS Integers, Sequences, FiniteSets, TLC

(***************************************************************************)
(* State.                                                                  *)
(***************************************************************************)
VARIABLES
  content,          \* the text the command read: document.getText()
  document,         \* the text of the editor's document
  pc,               \* where the command is
  actions,          \* parseWorkflow(content)
  actionsToUpdate,  \* the actions without skip-pinning
  i,                \* the loop index
  updates,          \* UpdateResult[]
  errors,           \* string[], one entry for each caught failure
  cancelRequested,  \* token.isCancellationRequested
  calls,            \* log of the getLatestActionVersion calls, in order
  world,            \* the API's answers to the resolution under way
  resolution,       \* what the latest getLatestActionVersion call returned
  messages,         \* the notifications shown to the user, in order
  validation        \* what validateWorkflowSyntax returned, once it has run

vars == <<content, document, pc, actions, actionsToUpdate, i, updates, errors,
          cancelRequested, calls, world, resolution, messages, validation>>

(***************************************************************************)
(* Characters and the JavaScript string primitives the source uses.        *)
(***************************************************************************)
NL == "\n"

Digits == {"0","1","2","3","4","5","6","7","8","9"}

LowerLetters ==
  {"a","b","c","d","e","f","g","h","i","j","k","l","m",
   "n","o","p","q","r","s","t","u","v","w","x","y","z"}

UpperLetters == {"G","I","K","N","P","S","T","V"}

\* \s of the regular expressions, over the characters of the model
IsWs(c) == c \in {" ", "\t"}

\* \w of the regular expressions
IsWord(c) == c \in Digits \cup LowerLetters \cup UpperLetters \cup {"_"}

\* the case folding of the /i flag, over the letters of the model
Lower(c) ==
  CASE c = "G" -> "g" [] c = "I" -> "i" [] c = "K" -> "k" [] c = "N" -> "n"
    [] c = "P" -> "p" [] c = "S" -> "s" [] c = "T" -> "t" [] c = "V" -> "v"
    [] OTHER -> c

\* the one element of a one-element set: The({e(v) : v \in {x}}) is e(x) with
\* x evaluated once, however often e mentions v
The(S) == CHOOSE r \in S : TRUE

LowerStr(str) == The({[k \in 1..Len(s) |-> Lower(s[k])] : s \in {str}})

\* character classes of the patterns: [^@\s], [^\s#], [^\/], \s, \d, \w
InClass(cls, c) ==
  CASE cls = "ws"      -> IsWs(c)
    [] cls = "path"    -> ~IsWs(c) /\ c # "@"
    [] cls = "ref"     -> ~IsWs(c) /\ c # "#"
    [] cls = "noslash" -> c # "/"
    [] cls = "digit"   -> c \in Digits
    [] cls = "word"    -> IsWord(c)
    [] cls = "ident"   -> (IsWord(c) /\ c # "_") \/ c \in {"-", "."}

\* the index after the longest run of cls characters that starts at index at
\* (a greedy X* or X+ whose successor cannot match a character of X)
SpanEnd(str, from, cls) ==
  The({ IF at > Len(s) THEN at
        ELSE CHOOSE j \in at..(Len(s) + 1) :
               /\ j > Len(s) \/ ~InClass(cls, s[j])
               /\ \A k \in at..(j - 1) : InClass(cls, s[k])
        : s \in {str}, at \in {from} })

\* does the literal lit occur in s at index at
StartsAt(str, from, lit) ==
  \E s \in {str}, at \in {from} :
    /\ at >= 1
    /\ at + Len(lit) - 1 <= Len(s)
    /\ \A k \in 1..Len(lit) : s[at + k - 1] = lit[k]

\* String.prototype.startsWith
StartsWith(s, lit) == StartsAt(s, 1, lit)

\* String.prototype.includes
Includes(str, lit) ==
  \E s \in {str} : \E at \in 1..(Len(s) - Len(lit) + 1) : StartsAt(s, at, lit)

\* String.prototype.trim, over the whitespace of the model
Trim(str) ==
  The({ IF \A k \in 1..Len(s) : IsWs(s[k]) THEN <<>>
        ELSE SubSeq(s, SpanEnd(s, 1, "ws"),
                    CHOOSE e \in 1..Len(s) :
                      ~IsWs(s[e]) /\ \A k \in (e + 1)..Len(s) : IsWs(s[k]))
        : s \in {str} })

\* String.prototype.split(sep) for a one-character sep: always at least one
\* piece; SepAt(j) is the index of the j-th separator
SplitOn(str, sep) ==
  The({ LET n == Cardinality(seps)
            SepAt(j) ==
              IF j = 0 THEN 0
              ELSE IF j = n + 1 THEN Len(s) + 1
              ELSE CHOOSE q \in seps : Cardinality({r \in seps : r < q}) = j - 1
        IN  [j \in 1..(n + 1) |-> SubSeq(s, SepAt(j - 1) + 1, SepAt(j) - 1)]
        : s \in {str}, seps \in {{k \in 1..Len(str) : str[k] = sep}} })

\* content.split('\n')
SplitLines(s) == SplitOn(s, NL)

\* Array.prototype.filter: the elements of seq at the indices keep, in order
FilterSeq(seq, keep) ==
  The({ [j \in 1..Cardinality(ks) |->
           sq[CHOOSE q \in ks : Cardinality({r \in ks : r < q}) = j - 1]]
        : sq \in {seq}, ks \in {keep} })

\* lines.join('\n')
RECURSIVE JoinLines(_)
JoinLines(lines) ==
  IF lines = <<>> THEN <<>>
  ELSE IF Len(lines) = 1 THEN lines[1]
  ELSE lines[1] \o <<NL>> \o JoinLines(Tail(lines))

(***************************************************************************)
(* WorkflowParser: the patterns.                                           *)
(***************************************************************************)
KwUses == <<"u","s","e","s",":">>
DashUses == <<"-"," ","u","s","e","s",":">>
GithubWorkflowsDir == <<"/",".","g","i","t","h","u","b","/","w","o","r","k","f","l","o","w","s","/">>
GithubWorkflows == <<".","g","i","t","h","u","b","/","w","o","r","k","f","l","o","w","s">>
SkipMarker == <<"s","k","i","p","-","p","i","n","n","i","n","g">>

NoMatch == [matched |-> FALSE]

\* /^(\s*)(?:-\s+)?uses:\s+([^@\s]+)@([^\s#]+)(?:\s*#\s*(.*))?$/
\* Every quantified run is followed by something its class excludes, so the
\* greedy match is the only one.  hasComment is whether group 4 took part.
ActionMatch(line) ==
  LET n     == Len(line)
      pInd  == SpanEnd(line, 1, "ws")
      dash  == pInd <= n /\ line[pInd] = "-"
      pDash == IF dash THEN SpanEnd(line, pInd + 1, "ws") ELSE pInd
      pKw   == pDash
      pGap  == pKw + Len(KwUses)
      pPath == SpanEnd(line, pGap, "ws")
      pAt   == SpanEnd(line, pPath, "path")
      pRef  == pAt + 1
      pEnd  == SpanEnd(line, pRef, "ref")
      pHash == SpanEnd(line, pEnd, "ws")
      pCom  == SpanEnd(line, pHash + 1, "ws")
      head  == /\ (dash => pDash > pInd + 1)
               /\ StartsAt(line, pKw, KwUses)
               /\ pPath > pGap
               /\ pAt > pPath
               /\ pAt <= n /\ line[pAt] = "@"
               /\ pEnd > pRef
      bare  == pEnd = n + 1
      tail  == pHash <= n /\ line[pHash] = "#"
  IN  IF head /\ bare
        THEN [matched |-> TRUE, indentation |-> SubSeq(line, 1, pInd - 1),
              fullPath |-> SubSeq(line, pPath, pAt - 1),
              ref |-> SubSeq(line, pRef, pEnd - 1),
              hasComment |-> FALSE, comment |-> <<>>]
      ELSE IF head /\ tail
        THEN [matched |-> TRUE, indentation |-> SubSeq(line, 1, pInd - 1),
              fullPath |-> SubSeq(line, pPath, pAt - 1),
              ref |-> SubSeq(line, pRef, pEnd - 1),
              hasComment |-> TRUE, comment |-> SubSeq(line, pCom, n)]
      ELSE NoMatch

\* ACTION_REGEX.exec(line)
ACTION_REGEX(str) == The({ ActionMatch(line) : line \in {str} })

\* the end of the leading owner/repo of a path: /^([^\/]+\/[^\/]+)/ ; 0 if none
OwnerRepoEnd(path) ==
  The({ The({ IF p1 > 1 /\ p1 <= Len(path) /\ p2 > p1 + 1 THEN p2 - 1 ELSE 0
              : p2 \in {SpanEnd(path, p1 + 1, "noslash")} })
        : p1 \in {SpanEnd(path, 1, "noslash")} })

\* /^([^\/]+\/[^\/]+)\/\.github\/workflows\/.*$/ : group 1, or <<>> if no match
REUSABLE_WORKFLOW_REGEX(path) ==
  The({ IF e > 0 /\ StartsAt(path, e + 1, GithubWorkflowsDir)
          THEN SubSeq(path, 1, e) ELSE <<>>
        : e \in {OwnerRepoEnd(path)} })

\* /^([^\/]+\/[^\/]+)\/(.+)$/ : group 1, or <<>> if no match
SUB_ACTION_REGEX(path) ==
  The({ IF e > 0 /\ e + 2 <= Len(path) /\ path[e + 1] = "/"
          THEN SubSeq(path, 1, e) ELSE <<>>
        : e \in {OwnerRepoEnd(path)} })

\* /skip-pinning/i .test(comment)
SKIP_PINNING_REGEX(comment) == Includes(LowerStr(comment), SkipMarker)

(***************************************************************************)
(* WorkflowParser: the operations.                                         *)
(***************************************************************************)
\* the repository of a path token (the let/if/else-if of parseWorkflow)
RepositoryOf(path) ==
  The({ IF reusableWorkflowMatch # <<>> THEN reusableWorkflowMatch
        ELSE IF subActionMatch # <<>> /\ ~Includes(fullPath, GithubWorkflows)
          THEN subActionMatch
        ELSE Trim(fullPath)
        : fullPath \in {path},
          reusableWorkflowMatch \in {REUSABLE_WORKFLOW_REGEX(path)},
          subActionMatch \in {SUB_ACTION_REGEX(path)} })

\* the WorkflowAction without the comment of the line
ActionOfUncommented(at, line, m) ==
  [line           |-> at,
   original       |-> line,
   repository     |-> RepositoryOf(m.fullPath),
   fullPath       |-> Trim(m.fullPath),
   currentRef     |-> Trim(m.ref),
   currentComment |-> <<>>,
   hasSkipPinning |-> SKIP_PINNING_REGEX(m.comment),
   indentation    |-> m.indentation]

\* the WorkflowAction pushed for line number at (0-based), given its match
ActionOf(at, line, m) ==
  [line           |-> at,
   original       |-> line,
   repository     |-> RepositoryOf(m.fullPath),
   fullPath       |-> Trim(m.fullPath),
   currentRef     |-> Trim(m.ref),
   currentComment |-> Trim(m.comment),
   hasSkipPinning |-> SKIP_PINNING_REGEX(m.comment),
   indentation    |-> m.indentation]

\* the for loop of parseWorkflow: the actions of the lines that match, in
\* line order
ParseLines(lines) ==
  The({ FilterSeq([k \in 1..Len(lines) |->
                     IF ms[k].matched THEN ActionOf(k - 1, lines[k], ms[k])
                     ELSE NoMatch],
                  {k \in 1..Len(lines) : ms[k].matched})
        : ms \in {[k \in 1..Len(lines) |-> ACTION_REGEX(lines[k])]} })

parseWorkflow(text) == The({ ParseLines(lines) : lines \in {SplitLines(text)} })

UsesPrefix == <<"u","s","e","s",":"," ">>
DashPrefix == <<"-"," ">>
TagCommentPrefix == <<" ","#"," ","t","a","g"," ">>

\* the rewrite that writes the abbreviated commit
updateActionLineAbbreviated(action, newVersion, newCommit) ==
  LET isDashFormat == Includes(action.original, DashUses)
      shortCommit  == IF Len(newCommit) > 7 THEN SubSeq(newCommit, 1, 7)
                      ELSE newCommit
  IN  IF action.hasSkipPinning THEN action.original
      ELSE IF isDashFormat
        THEN action.indentation \o DashPrefix \o UsesPrefix \o action.fullPath
               \o <<"@">> \o shortCommit \o TagCommentPrefix \o newVersion
      ELSE action.indentation \o UsesPrefix \o action.fullPath
               \o <<"@">> \o shortCommit \o TagCommentPrefix \o newVersion

updateActionLine(action, newVersion, newCommit) ==
  LET isDashFormat == Includes(action.original, DashUses)
  IN  IF action.hasSkipPinning THEN action.original
      ELSE IF isDashFormat
        THEN action.indentation \o DashPrefix \o UsesPrefix \o action.fullPath
               \o <<"@">> \o newCommit \o TagCommentPrefix \o newVersion
      ELSE action.indentation \o UsesPrefix \o action.fullPath
               \o <<"@">> \o newCommit \o TagCommentPrefix \o newVersion

\* Array.prototype.sort((a, b) => b.line - a.line): stable, descending by line
RECURSIVE InsertByLineDesc(_, _)
InsertByLineDesc(into, update) ==
  The({ IF sorted = <<>> THEN <<u>>
        ELSE IF Head(sorted).line >= u.line
          THEN <<Head(sorted)>> \o InsertByLineDesc(Tail(sorted), u)
        ELSE <<u>> \o sorted
        : sorted \in {into}, u \in {update} })

RECURSIVE SortByLineDesc(_)
SortByLineDesc(us) ==
  IF us = <<>> THEN <<>>
  ELSE InsertByLineDesc(SortByLineDesc(SubSeq(us, 1, Len(us) - 1)), us[Len(us)])

\* the for-of loop without its test of update.line: an assignment past the
\* end lengthens the array, and join writes the holes as empty lines
RECURSIVE PatchLinesUnguarded(_, _)
PatchLinesUnguarded(before, remaining) ==
  The({ IF sortedUpdates = <<>> THEN lines
        ELSE The({ PatchLinesUnguarded(
                     IF update.line < 0 THEN lines
                     ELSE [k \in 1..(IF update.line < Len(lines) THEN Len(lines)
                                     ELSE update.line + 1) |->
                             IF k = update.line + 1 THEN update.updated
                             ELSE IF k <= Len(lines) THEN lines[k] ELSE <<>>],
                     Tail(sortedUpdates))
                   : update \in {Head(sortedUpdates)} })
        : lines \in {before}, sortedUpdates \in {remaining} })

\* the for-of loop of applyUpdates: an assignment at an index that is not
\* below lines.length is skipped; one at a negative index sets a property
\* that join never reads
RECURSIVE PatchLines(_, _)
PatchLines(before, remaining) ==
  The({ IF sortedUpdates = <<>> THEN lines
        ELSE The({ PatchLines(
                     IF update.line < Len(lines) /\ update.line >= 0
                       THEN [lines EXCEPT ![update.line + 1] = update.updated]
                       ELSE lines,
                     Tail(sortedUpdates))
                   : update \in {Head(sortedUpdates)} })
        : lines \in {before}, sortedUpdates \in {remaining} })

applyUpdates(text, us) ==
  JoinLines(PatchLines(SplitLines(text), SortByLineDesc(us)))

\* v?\d+\.\d+\.\d+(?:[.-]\w+)* tried at index at: the index after the match, 0 if none
RECURSIVE VersionSuffixEnd(_, _)
VersionSuffixEnd(s, from) ==
  The({ IF at <= Len(s) /\ s[at] \in {".", "-"}
          THEN The({ IF e > at + 1 THEN VersionSuffixEnd(s, e) ELSE at
                     : e \in {SpanEnd(s, at + 1, "word")} })
          ELSE at
        : at \in {from} })

VersionEndAt(s, from) ==
  The({ LET n  == Len(s)
            j0 == IF at <= n /\ Lower(s[at]) = "v" THEN at + 1 ELSE at
            d1 == SpanEnd(s, j0, "digit")
            d2 == SpanEnd(s, d1 + 1, "digit")
            d3 == SpanEnd(s, d2 + 1, "digit")
        IN  IF /\ d1 > j0 /\ d1 <= n /\ s[d1] = "."
               /\ d2 > d1 + 1 /\ d2 <= n /\ s[d2] = "."
               /\ d3 > d2 + 1
              THEN VersionSuffixEnd(s, d3) ELSE 0
        : at \in {from} })

\* the start of group 1 when the whole pattern is tried at index p:
\* after an optional "tag\s+" (case-insensitive), else at p itself
TagWord == <<"t","a","g">>

VersionStartAt(s, p) ==
  The({ IF /\ StartsAt(LowerStr(s), p, TagWord)
           /\ q > p + Len(TagWord)
           /\ VersionEndAt(s, q) > 0
          THEN q ELSE p
        : q \in {SpanEnd(s, p + Len(TagWord), "ws")} })

\* comment.match(/(?:tag\s+)?(v?\d+\.\d+\.\d+(?:[.-]\w+)*)/i): group 1 of the
\* leftmost match, '' if there is none
extractVersionFromComment(str) ==
  The({ IF matches = {} THEN <<>>
        ELSE The({ SubSeq(comment, q, VersionEndAt(comment, q) - 1)
                   : q \in {VersionStartAt(comment,
                              CHOOSE p \in matches : \A r \in matches : p <= r)} })
        : comment \in {str},
          matches \in {{p \in 1..Len(str) :
                          VersionEndAt(str, VersionStartAt(str, p)) > 0}} })

\* the comparison without the normalization: ===
areVersionsIdentical(version1, version2) == version1 = version2

normalizeVersion(version) ==
  IF version = <<>> THEN <<>>
  ELSE IF StartsWith(version, <<"v">>) THEN version
  ELSE <<"v">> \o version

areVersionsEqual(version1, version2) ==
  normalizeVersion(version1) = normalizeVersion(version2)

(***************************************************************************)
(* The semver package, as the resolver uses it: valid and rcompare in      *)
(* strict mode.                                                            *)
(***************************************************************************)
\* the index after the run of identifiers and dots that starts at index at
IdentRunEnd(s, at) == SpanEnd(s, at, "ident")

\* s.split('.')
SplitDots(s) == SplitOn(s, ".")

AllDigits(str) ==
  \E id \in {str} : id # <<>> /\ \A k \in 1..Len(id) : id[k] \in Digits

\* 0|[1-9]\d*
IsNumericIdentifier(str) ==
  \E id \in {str} : AllDigits(id) /\ (Len(id) = 1 \/ id[1] # "0")

\* a prerelease identifier: numeric without a leading zero, or with a non-digit
IsPrereleaseIdentifier(id) ==
  id # <<>> /\ (AllDigits(id) => IsNumericIdentifier(id))

DigitOrder == <<"0","1","2","3","4","5","6","7","8","9">>

DigitValue(c) == (CHOOSE k \in 1..Len(DigitOrder) : DigitOrder[k] = c) - 1

RECURSIVE ToNumber(_)
ToNumber(str) ==
  The({ IF ds = <<>> THEN 0
        ELSE ToNumber(SubSeq(ds, 1, Len(ds) - 1)) * Len(DigitOrder)
               + DigitValue(ds[Len(ds)])
        : ds \in {str} })

NotSemver == [valid |-> FALSE]

\* new SemVer(version): version.trim() against
\* ^v?(0|[1-9]\d*)\.(0|[1-9]\d*)\.(0|[1-9]\d*)(?:-(pre))?(?:\+(build))?$
SemverFields(s) ==
  LET n  == Len(s)
      j0 == IF n >= 1 /\ s[1] = "v" THEN 2 ELSE 1
      d1 == SpanEnd(s, j0, "digit")
      d2 == SpanEnd(s, d1 + 1, "digit")
      d3 == SpanEnd(s, d2 + 1, "digit")
      main == /\ d1 <= n /\ s[d1] = "."
              /\ d2 <= n /\ s[d2] = "."
              /\ IsNumericIdentifier(SubSeq(s, j0, d1 - 1))
              /\ IsNumericIdentifier(SubSeq(s, d1 + 1, d2 - 1))
              /\ IsNumericIdentifier(SubSeq(s, d2 + 1, d3 - 1))
      hasPre   == d3 <= n /\ s[d3] = "-"
      preEnd   == IF hasPre THEN IdentRunEnd(s, d3 + 1) ELSE d3
      pre      == IF hasPre THEN SplitDots(SubSeq(s, d3 + 1, preEnd - 1))
                  ELSE <<>>
      hasBuild == preEnd <= n /\ s[preEnd] = "+"
      buildEnd == IF hasBuild THEN IdentRunEnd(s, preEnd + 1) ELSE preEnd
      build    == IF hasBuild
                    THEN SplitDots(SubSeq(s, preEnd + 1, buildEnd - 1))
                    ELSE <<>>
  IN  IF /\ main
         /\ \A k \in 1..Len(pre) : IsPrereleaseIdentifier(pre[k])
         /\ \A k \in 1..Len(build) : build[k] # <<>>
         /\ buildEnd = n + 1
        THEN [valid |-> TRUE,
              major |-> ToNumber(SubSeq(s, j0, d1 - 1)),
              minor |-> ToNumber(SubSeq(s, d1 + 1, d2 - 1)),
              patch |-> ToNumber(SubSeq(s, d2 + 1, d3 - 1)),
              prerelease |-> pre]
        ELSE NotSemver

SemverParse(version) == The({ SemverFields(s) : s \in {Trim(version)} })

\* semver.valid(version), as a truth value
SemverValid(version) == SemverParse(version).valid

\* the order of the characters of an identifier by code unit
CodeOrder ==
  <<"-","0","1","2","3","4","5","6","7","8","9",
    "G","I","K","N","P","S","T","V",
    "a","b","c","d","e","f","g","h","i","j","k","l","m",
    "n","o","p","q","r","s","t","u","v","w","x","y","z">>

CharRank(c) == CHOOSE k \in 1..Len(CodeOrder) : CodeOrder[k] = c

Sign(x) == IF x < 0 THEN -1 ELSE IF x > 0 THEN 1 ELSE 0

\* a < b of two strings: -1, 0 or 1
RECURSIVE StringCompare(_, _)
StringCompare(left, right) ==
  The({ IF a = <<>> /\ b = <<>> THEN 0
        ELSE IF a = <<>> THEN -1
        ELSE IF b = <<>> THEN 1
        ELSE IF a[1] # b[1] THEN Sign(CharRank(a[1]) - CharRank(b[1]))
        ELSE StringCompare(Tail(a), Tail(b))
        : a \in {left}, b \in {right} })

\* compareIdentifiers(a, b)
CompareIdentifiers(left, right) ==
  The({ IF AllDigits(a) /\ AllDigits(b) THEN Sign(ToNumber(a) - ToNumber(b))
        ELSE IF AllDigits(a) THEN -1
        ELSE IF AllDigits(b) THEN 1
        ELSE StringCompare(a, b)
        : a \in {left}, b \in {right} })

\* SemVer.comparePre: the loop over the identifiers, from index at
RECURSIVE ComparePreFrom(_, _, _)
ComparePreFrom(pa, pb, at) ==
  IF at > Len(pa) /\ at > Len(pb) THEN 0
  ELSE IF at > Len(pb) THEN 1
  ELSE IF at > Len(pa) THEN -1
  ELSE IF pa[at] = pb[at] THEN ComparePreFrom(pa, pb, at + 1)
  ELSE CompareIdentifiers(pa[at], pb[at])

ComparePre(pa, pb) ==
  IF pa # <<>> /\ pb = <<>> THEN -1
  ELSE IF pa = <<>> /\ pb # <<>> THEN 1
  ELSE ComparePreFrom(pa, pb, 1)

\* semver.compare(a, b) of two valid versions
SemverCompare(a, b) ==
  The({ IF x.major # y.major THEN Sign(x.major - y.major)
        ELSE IF x.minor # y.minor THEN Sign(x.minor - y.minor)
        ELSE IF x.patch # y.patch THEN Sign(x.patch - y.patch)
        ELSE ComparePre(x.prerelease, y.prerelease)
        : x \in {SemverParse(a)}, y \in {SemverParse(b)} })

\* semver.rcompare(a, b)
SemverRcompare(a, b) == SemverCompare(b, a)

(***************************************************************************)
(* GitHubApiService.  A world is what the GitHub API answers to each of  *)
(* the six requests of one resolution: Failed (makeRequest rejects) or     *)
(* Ok(body).  One resolution issues each request at most once.             *)
(***************************************************************************)
Failed == [ok |-> FALSE]

Ok(body) == [ok |-> TRUE, body |-> body]

NotFound == [found |-> FALSE]

\* Array.prototype.sort((a, b) => semver.rcompare(key(a), key(b))): stable
RECURSIVE InsertByRcompare(_, _)
InsertByRcompare(into, entry) ==
  The({ IF sorted = <<>> THEN <<e>>
        ELSE IF SemverRcompare(Head(sorted).key, e.key) <= 0
          THEN <<Head(sorted)>> \o InsertByRcompare(Tail(sorted), e)
        ELSE <<e>> \o sorted
        : sorted \in {into}, e \in {entry} })

RECURSIVE SortByRcompare(_)
SortByRcompare(es) ==
  IF es = <<>> THEN <<>>
  ELSE InsertByRcompare(SortByRcompare(SubSeq(es, 1, Len(es) - 1)), es[Len(es)])

\* the first element of a sorted array, if it has one
FirstOf(sorted) ==
  The({ IF first = <<>> THEN NotFound ELSE [found |-> TRUE, item |-> first[1].item]
        : first \in {sorted} })

\* the array with each element keyed by the version it is compared by
Keyed(valid, keys) ==
  The({ [k \in 1..Len(v) |-> [key |-> keys[k], item |-> v[k]]] : v \in {valid} })

\* the selection without the filter on prerelease
findLatestSemverOfAll(releases) ==
  The({ FirstOf(SortByRcompare(Keyed(valid,
                  [k \in 1..Len(valid) |-> valid[k].tag_name])))
        : valid \in
            {FilterSeq(releases, {k \in 1..Len(releases) :
                                   SemverValid(releases[k].tag_name)})} })

findLatestSemverRelease(releases) ==
  The({ The({ The({ FirstOf(validReleases)
                    : validReleases \in
                        {SortByRcompare(Keyed(valid,
                           [k \in 1..Len(valid) |-> valid[k].tag_name]))} })
              : valid \in
                  {FilterSeq(stable, {k \in 1..Len(stable) :
                                       SemverValid(stable[k].tag_name)})} })
        : stable \in
            {FilterSeq(releases, {k \in 1..Len(releases) :
                                   ~releases[k].prerelease})} })

\* the selection without the sort: the first valid tag of the list
findFirstSemverTag(tags) ==
  The({ FirstOf(Keyed(valid, [k \in 1..Len(valid) |-> valid[k].name]))
        : valid \in
            {FilterSeq(tags, {k \in 1..Len(tags) : SemverValid(tags[k].name)})} })

findLatestSemverTag(tags) ==
  The({ The({ FirstOf(validTags)
              : validTags \in
                  {SortByRcompare(Keyed(valid,
                     [k \in 1..Len(valid) |-> valid[k].name]))} })
        : valid \in
            {FilterSeq(tags, {k \in 1..Len(tags) : SemverValid(tags[k].name)})} })

\* tags.find(t => t.name === tagName)
FindTag(tags, tagName) ==
  The({ IF hits = {} THEN NotFound
        ELSE [found |-> TRUE,
              item |-> tags[CHOOSE k \in hits : \A j \in hits : k <= j]]
        : hits \in {{k \in 1..Len(tags) : tags[k].name = tagName}} })

\* the catch block of getCommitForTag, after the requests made so far
CommitFromTagList(w, tagName, made) ==
  IF ~w.tags.ok THEN [ok |-> FALSE, requests |-> made \o <<"tags">>]
  ELSE The({ [ok |-> TRUE,
              sha |-> IF tag.found THEN tag.item.sha ELSE <<>>,
              requests |-> made \o <<"tags">>]
             : tag \in {FindTag(w.tags.body, tagName)} })

\* getCommitForTag without its catch block: a failed request is thrown on
getCommitForTagUncaught(w, tagName) ==
  IF ~w.tagRef.ok THEN [ok |-> FALSE, requests |-> <<"tagRef">>]
  ELSE IF w.tagRef.body.type = "tag"
    THEN IF w.tagObject.ok
           THEN [ok |-> TRUE, sha |-> w.tagObject.body,
                 requests |-> <<"tagRef", "tagObject">>]
           ELSE [ok |-> FALSE, requests |-> <<"tagRef", "tagObject">>]
  ELSE [ok |-> TRUE, sha |-> w.tagRef.body.sha, requests |-> <<"tagRef">>]

getCommitForTag(w, tagName) ==
  IF ~w.tagRef.ok THEN CommitFromTagList(w, tagName, <<"tagRef">>)
  ELSE IF w.tagRef.body.type = "tag"
    THEN IF w.tagObject.ok
           THEN [ok |-> TRUE, sha |-> w.tagObject.body,
                 requests |-> <<"tagRef", "tagObject">>]
           ELSE CommitFromTagList(w, tagName, <<"tagRef", "tagObject">>)
  ELSE [ok |-> TRUE, sha |-> w.tagRef.body.sha, requests |-> <<"tagRef">>]

DefaultBranchName == <<"m","a","i","n">>

\* the branch name without the request's answer
getDefaultBranchAssumed(w) == DefaultBranchName

\* repo.default_branch || 'main'
getDefaultBranch(w) ==
  IF w.repo.body = <<>> THEN DefaultBranchName ELSE w.repo.body

Thrown(made) == [ok |-> FALSE, requests |-> made]

Resolved(version, commit, made) ==
  [ok |-> TRUE, latestVersion |-> version, latestCommit |-> commit,
   requests |-> made]

\* the releases tier, once a release has been selected
ReleasesTier(w, latestRelease) ==
  The({ IF commit.ok
          THEN Resolved(latestRelease.tag_name, commit.sha,
                        <<"releases">> \o commit.requests)
          ELSE Thrown(<<"releases">> \o commit.requests)
        : commit \in {getCommitForTag(w, latestRelease.tag_name)} })

\* the final fallback: the head of the default branch
DefaultBranchTier(w, made) ==
  IF ~w.repo.ok THEN Thrown(made \o <<"repo">>)
  ELSE IF ~w.commit.ok THEN Thrown(made \o <<"repo", "commit">>)
  ELSE Resolved(getDefaultBranch(w), w.commit.body,
                made \o <<"repo", "commit">>)

\* the fallback that goes on to the default branch whatever the tag list holds
TagsTierPassedOver(w, made) ==
  IF ~w.tags.ok THEN Thrown(made \o <<"tags">>)
  ELSE DefaultBranchTier(w, made \o <<"tags">>)

\* the fallback to tags, and from there to the default branch
TagsTier(w, made) ==
  IF ~w.tags.ok THEN Thrown(made \o <<"tags">>)
  ELSE The({ IF Len(tags) > 0
               THEN IF latestTag.found
                      THEN Resolved(latestTag.item.name, latestTag.item.sha,
                                    made \o <<"tags">>)
                      ELSE Resolved(tags[1].name, tags[1].sha, made \o <<"tags">>)
             ELSE DefaultBranchTier(w, made \o <<"tags">>)
             : tags \in {w.tags.body},
               latestTag \in {findLatestSemverTag(w.tags.body)} })

getLatestActionVersion(w) ==
  IF ~w.releases.ok THEN Thrown(<<"releases">>)
  ELSE The({ IF latestRelease.found
               THEN ReleasesTier(w, latestRelease.item)
               ELSE TagsTier(w, <<"releases">>)
             : latestRelease \in
                 {IF Len(w.releases.body) > 0
                    THEN findLatestSemverRelease(w.releases.body)
                    ELSE NotFound} })

(***************************************************************************)
(* updateWorkflowCommand: the helpers of the command.                      *)
(***************************************************************************)
FullHashLen == 40

YmlSuffix == <<".","y","m","l">>
YamlSuffix == <<".","y","a","m","l">>
GithubWorkflowsPath == <<".","g","i","t","h","u","b","/","w","o","r","k","f","l","o","w","s","/">>
WorkflowsPath == <<"w","o","r","k","f","l","o","w","s","/">>
KwJobs == <<"j","o","b","s",":">>
KwOn == <<"o","n",":">>

EndsWith(s, lit) == StartsAt(s, Len(s) - Len(lit) + 1, lit)

\* /\.(yml|yaml)$/.test(filePath) && (includes(...) || includes(...))
isWorkflowFile(filePath) ==
  /\ EndsWith(filePath, YmlSuffix) \/ EndsWith(filePath, YamlSuffix)
  /\ Includes(filePath, GithubWorkflowsPath) \/ Includes(filePath, WorkflowsPath)

isLikelyWorkflowFile(text) ==
  /\ Includes(text, KwUses)
  /\ Includes(text, KwJobs) \/ Includes(text, KwOn)

\* yaml.parse is the yaml package's: its outcome on the text is an input,
\* "throws", "scalar" (nothing or no object), "nojobs" or "workflow"
validateWorkflowSyntax(parsed) ==
  IF parsed = "throws" THEN [valid |-> FALSE, error |-> "YAML parse error"]
  ELSE IF parsed = "scalar"
    THEN [valid |-> FALSE, error |-> "Invalid YAML structure"]
  ELSE IF parsed = "nojobs"
    THEN [valid |-> FALSE, error |-> "No jobs found in workflow"]
  ELSE [valid |-> TRUE, error |-> ""]

\* the work list without the filter: every action found
ActionsUnfiltered(all) == all

\* actions.filter(action => !action.hasSkipPinning)
ActionsToUpdate(all) ==
  FilterSeq(all, {k \in 1..Len(all) : ~all[k].hasSkipPinning})

\* actions.filter(action => action.hasSkipPinning)
SkippedActions(all) ==
  FilterSeq(all, {k \in 1..Len(all) : all[k].hasSkipPinning})

\* "already up to date": the continue of the loop body
IsUpToDate(action, updateInfo) ==
  \E currentVersion \in {extractVersionFromComment(action.currentComment)} :
    LET isAlreadyPinned == Len(action.currentRef) = FullHashLen
        isSameVersion   == areVersionsEqual(currentVersion, updateInfo.latestVersion)
        isSameCommit    == action.currentRef = updateInfo.latestCommit
    IN  isAlreadyPinned /\ (isSameVersion \/ isSameCommit)

\* the UpdateResult pushed for an action that is not up to date
UpdateResultOf(action, updateInfo) ==
  The({ [line       |-> action.line,
         original   |-> action.original,
         updated    |-> updateActionLine(action, updateInfo.latestVersion,
                                         updateInfo.latestCommit),
         repository |-> action.repository,
         oldVersion |-> IF currentVersion # <<>> THEN currentVersion
                        ELSE action.currentRef,
         newVersion |-> updateInfo.latestVersion,
         newCommit  |-> updateInfo.latestCommit]
        : currentVersion \in {extractVersionFromComment(action.currentComment)} })

\* the updates after the try block of one iteration
UpdatesAfter(us, action, updateInfo) ==
  IF updateInfo.ok /\ ~IsUpToDate(action, updateInfo)
    THEN Append(us, UpdateResultOf(action, updateInfo))
    ELSE us

\* the catch block pushing its message a second time
ErrorsAfterRepeated(es, action, updateInfo) ==
  IF updateInfo.ok THEN es
  ELSE es \o <<[repository |-> action.repository],
               [repository |-> action.repository]>>

\* the errors after the catch block of one iteration
ErrorsAfter(es, action, updateInfo) ==
  IF updateInfo.ok THEN es
  ELSE Append(es, [repository |-> action.repository])

(***************************************************************************)
(* Bounds and the inputs drawn from them.                                  *)
(***************************************************************************)
MaxLines == 2
MaxReleases == 2
MaxTags == 2
MaxTextLines == 2
MaxUpdates == 2

SeqsUpTo(S, n) == UNION {[1..k -> S] : k \in 0..n}

\* a full commit hash, as the API reports it
Hash(c) == [k \in 1..FullHashLen |-> c]

HashA == Hash("a")
HashB == Hash("b")
HashC == Hash("c")

V422 == <<"v","4",".","2",".","2">>
V422Bare == <<"4",".","2",".","2">>
V490 == <<"v","4",".","9",".","0">>
V500Beta == <<"v","5",".","0",".","0","-","b","e","t","a">>
V1000 == <<"v","1","0",".","0",".","0">>
VLatest == <<"l","a","t","e","s","t">>
V4 == <<"v","4">>
Nightly == <<"n","i","g","h","t","l","y">>
Trunk == <<"t","r","u","n","k">>

\* the lines of the documents the command is run on
HeaderLine == <<"j","o","b","s",":">>
LineUnpinned == <<" "," ","-"," ","u","s","e","s",":"," ","a","/","b","@","v","4">>
LineSkipped == <<" "," ","-"," ","u","s","e","s",":"," ","a","/","b","@","c","1","d","2"," ","#"," ","s","k","i","p","-","p","i","n","n","i","n","g">>
LineSkippedUpper == <<" "," "," "," ","u","s","e","s",":"," ","a","/","b","@","m","a","i","n"," ","#","S","k","i","p","-","P","i","n","n","i","n","g">>
LineUnpinnedTagged == <<" "," "," "," ","u","s","e","s",":"," ","a","/","b","@","v","4"," ","#"," ","v","4",".","2",".","2">>
PinnedHead == <<" "," ","-"," ","u","s","e","s",":"," ","a","/","b","@">>
PinnedTail == <<" ","#"," ","t","a","g"," ","v","4",".","2",".","2">>
ReusableHead == <<" "," "," "," ","u","s","e","s",":"," ","a","c","m","e","/","t","o","o","l","s","/",".","g","i","t","h","u","b","/","w","o","r","k","f","l","o","w","s","/","d","e","p","l","o","y",".","y","m","l","@">>

LinePinnedTagged == PinnedHead \o HashA \o PinnedTail
LinePinnedBare == ReusableHead \o HashB

RunLines ==
  {LineUnpinnedTagged, LineSkipped, LineSkippedUpper, LinePinnedTagged,
   LinePinnedBare}

Documents ==
  {JoinLines(<<HeaderLine>> \o body) : body \in SeqsUpTo(RunLines, MaxLines)}

FilePaths ==
  { <<".","g","i","t","h","u","b","/","w","o","r","k","f","l","o","w","s","/","c","i",".","y","m","l">>,
    <<"n","o","t","e","s",".","t","x","t">> }

\* the answers of the API during a run of the command: one world per tier
\* and path of the resolver, and one whose only tag is named "v"
World(releases, tagRef, tagObject, tags, repo, commit) ==
  [releases |-> releases, tagRef |-> tagRef, tagObject |-> tagObject,
   tags |-> tags, repo |-> repo, commit |-> commit]

Release(tag, pre) == [tag_name |-> tag, prerelease |-> pre]

Tag(name, sha) == [name |-> name, sha |-> sha]

TagRef(type, sha) == [type |-> type, sha |-> sha]

RunWorlds ==
  { World(Failed, Failed, Failed, Failed, Failed, Failed),
    World(Ok(<<Release(V422, FALSE)>>), Ok(TagRef("commit", HashA)),
          Failed, Failed, Failed, Failed),
    World(Ok(<<Release(V422Bare, FALSE)>>), Ok(TagRef("tag", HashC)),
          Ok(HashB), Failed, Failed, Failed),
    World(Ok(<<>>), Failed, Failed, Ok(<<Tag(V4, HashB)>>), Failed, Failed),
    World(Ok(<<>>), Failed, Failed, Ok(<<>>), Ok(Trunk), Ok(HashB)),
    World(Ok(<<Release(V490, FALSE)>>), Failed, Failed,
          Ok(<<Tag(V422, HashA)>>), Failed, Failed),
    World(Ok(<<>>), Failed, Failed, Ok(<<Tag(<<"v">>, HashC)>>), Failed, Failed) }

\* the answers of the API for one resolution, for the resolver on its own
ReleaseCands ==
  {Release(V490, FALSE), Release(V500Beta, TRUE), Release(V500Beta, FALSE),
   Release(V1000, FALSE), Release(VLatest, FALSE)}

TagCands == {Tag(V490, HashA), Tag(V1000, HashB), Tag(Nightly, HashC)}

Answers(S) == {Failed} \cup {Ok(b) : b \in S}

\* the answers about a tag and about the default branch.  The tag object is
\* asked for only after a tag ref of type "tag", the commit only after the
\* repository, and one resolution asks about a tag or about the branch.
Lookups ==
  { <<Failed, Failed, Failed, Failed>>,
    <<Ok(TagRef("commit", HashA)), Failed, Failed, Failed>>,
    <<Ok(TagRef("tag", HashC)), Failed, Failed, Failed>>,
    <<Ok(TagRef("tag", HashC)), Ok(HashB), Failed, Failed>>,
    <<Failed, Failed, Ok(Trunk), Failed>>,
    <<Failed, Failed, Ok(Trunk), Ok(HashC)>>,
    <<Failed, Failed, Ok(<<>>), Ok(HashC)>> }

NoWorld == World(Failed, Failed, Failed, Failed, Failed, Failed)

NoResolution == [ok |-> FALSE, requests |-> <<>>]

\* the syntax check has not run, so it has reported no error
NoValidation == [valid |-> TRUE, error |-> ""]

Init ==
  /\ content \in Documents
  /\ document = content
  /\ pc = "idle"
  /\ actions = <<>>
  /\ actionsToUpdate = <<>>
  /\ i = 0
  /\ updates = <<>>
  /\ errors = <<>>
  /\ cancelRequested = FALSE
  /\ calls = <<>>
  /\ world = NoWorld
  /\ resolution = NoResolution
  /\ messages = <<>>
  /\ validation = NoValidation

(***************************************************************************)
(* updateWorkflowCommand, one action for each stretch between two awaits.  *)
(***************************************************************************)
\* from the start of the command to withProgress: the editor, the file
\* check, the syntax check and the token prompt
\* Preflight without the return after the syntax error
PreflightUngated ==
  /\ pc = "idle"
  /\ \E hasEditor \in BOOLEAN, filePath \in FilePaths, proceed \in {"Yes", "No"},
        parsed \in {"throws", "scalar", "nojobs", "workflow"},
        prompt \in {"Configure Token", "Continue Anyway"} :
       \E result \in {validateWorkflowSyntax(parsed)} :
           IF ~hasEditor
             THEN /\ pc' = "rejected"
                  /\ messages' = Append(messages, "error: No active editor found")
                  /\ validation' = validation
           ELSE IF /\ ~isWorkflowFile(filePath)
                   /\ ~isLikelyWorkflowFile(content)
                   /\ proceed # "Yes"
             THEN /\ pc' = "rejected"
                  /\ messages' = Append(messages, "warning: not a workflow file")
                  /\ validation' = validation
           ELSE IF ~result.valid
             THEN /\ pc' = "progress"
                  /\ messages' = Append(messages, "error: Invalid workflow file")
                  /\ validation' = result
           ELSE IF prompt = "Configure Token"
             THEN /\ pc' = "rejected"
                  /\ messages' = Append(messages, "warning: No GitHub token configured")
                  /\ validation' = result
           ELSE /\ pc' = "progress"
                /\ messages' = messages
                /\ validation' = result
  /\ UNCHANGED <<content, document, actions, actionsToUpdate, i, updates,
                 errors, cancelRequested, calls, world, resolution>>

Preflight ==
  /\ pc = "idle"
  /\ \E hasEditor \in BOOLEAN, filePath \in FilePaths, proceed \in {"Yes", "No"},
        parsed \in {"throws", "scalar", "nojobs", "workflow"},
        prompt \in {"Configure Token", "Continue Anyway"} :
       \E result \in {validateWorkflowSyntax(parsed)} :
           IF ~hasEditor
             THEN /\ pc' = "rejected"
                  /\ messages' = Append(messages, "error: No active editor found")
                  /\ validation' = validation
           ELSE IF /\ ~isWorkflowFile(filePath)
                   /\ ~isLikelyWorkflowFile(content)
                   /\ proceed # "Yes"
             THEN /\ pc' = "rejected"
                  /\ messages' = Append(messages, "warning: not a workflow file")
                  /\ validation' = validation
           ELSE IF ~result.valid
             THEN /\ pc' = "rejected"
                  /\ messages' = Append(messages, "error: Invalid workflow file")
                  /\ validation' = result
           ELSE IF prompt = "Configure Token"
             THEN /\ pc' = "rejected"
                  /\ messages' = Append(messages, "warning: No GitHub token configured")
                  /\ validation' = result
           ELSE /\ pc' = "progress"
                /\ messages' = messages
                /\ validation' = result
  /\ UNCHANGED <<content, document, actions, actionsToUpdate, i, updates,
                 errors, cancelRequested, calls, world, resolution>>

\* the start of the progress callback, up to the loop
BeginProgress ==
  /\ pc = "progress"
  /\ LET found   == parseWorkflow(content)
         skipped == SkippedActions(found)
         todo    == ActionsToUpdate(found)
         noted   == IF skipped # <<>>
                      THEN Append(messages, "info: Skipping actions marked with skip-pinning")
                      ELSE messages
     IN  /\ actions' = found
         /\ actionsToUpdate' = todo
         /\ IF found = <<>>
              THEN /\ pc' = "nothing"
                   /\ messages' = Append(messages, "info: No GitHub actions found")
            ELSE IF todo = <<>>
              THEN /\ pc' = "nothing"
                   /\ messages' = Append(noted, "info: All actions are marked to skip pinning")
            ELSE /\ pc' = "loop"
                 /\ messages' = noted
  /\ i' = 0
  /\ updates' = <<>>
  /\ errors' = <<>>
  /\ UNCHANGED <<content, document, cancelRequested, calls, world, resolution, validation>>

\* the user cancels the progress notification; the command runs on one
\* thread, so the flag can only change while it awaits a resolution
Cancel ==
  /\ pc = "resolving"
  /\ ~cancelRequested
  /\ cancelRequested' = TRUE
  /\ UNCHANGED <<content, document, pc, actions, actionsToUpdate, i, updates,
                 errors, calls, world, resolution, messages, validation>>

\* the top of an iteration leaving the loop with break: the updates made
\* so far are applied
ObserveCancelAndPatch ==
  /\ pc = "loop"
  /\ i < Len(actionsToUpdate)
  /\ cancelRequested
  /\ pc' = "cancelled"
  /\ document' = IF updates # <<>> THEN applyUpdates(content, updates)
                 ELSE document
  /\ updates' = IF updates # <<>> THEN SortByLineDesc(updates) ELSE updates
  /\ UNCHANGED <<content, actions, actionsToUpdate, i, errors, cancelRequested,
                 calls, world, resolution, messages, validation>>

\* the top of an iteration with the token cancelled: return
ObserveCancel ==
  /\ pc = "loop"
  /\ i < Len(actionsToUpdate)
  /\ cancelRequested
  /\ pc' = "cancelled"
  /\ UNCHANGED <<content, document, actions, actionsToUpdate, i, updates,
                 errors, cancelRequested, calls, world, resolution, messages, validation>>

\* the top of an iteration that does not look at the token
StartResolutionUnchecked ==
  /\ pc = "loop"
  /\ i < Len(actionsToUpdate)
  /\ calls' = Append(calls, [line |-> actionsToUpdate[i + 1].line,
                             repository |-> actionsToUpdate[i + 1].repository])
  /\ pc' = "resolving"
  /\ UNCHANGED <<content, document, actions, actionsToUpdate, i, updates,
                 errors, cancelRequested, world, resolution, messages, validation>>

\* the top of an iteration that calls once for each repository: a reference
\* to a repository already called for is passed over
StartResolutionOncePerRepository ==
  /\ pc = "loop"
  /\ i < Len(actionsToUpdate)
  /\ ~cancelRequested
  /\ IF \E c \in 1..Len(calls) :
          calls[c].repository = actionsToUpdate[i + 1].repository
       THEN /\ calls' = calls
            /\ i' = i + 1
            /\ pc' = "loop"
       ELSE /\ calls' = Append(calls, [line |-> actionsToUpdate[i + 1].line,
                                       repository |-> actionsToUpdate[i + 1].repository])
            /\ i' = i
            /\ pc' = "resolving"
  /\ UNCHANGED <<content, document, actions, actionsToUpdate, updates,
                 errors, cancelRequested, world, resolution, messages, validation>>

\* the top of an iteration otherwise: call getLatestActionVersion and await
StartResolution ==
  /\ pc = "loop"
  /\ i < Len(actionsToUpdate)
  /\ ~cancelRequested
  /\ calls' = Append(calls, [line |-> actionsToUpdate[i + 1].line,
                             repository |-> actionsToUpdate[i + 1].repository])
  /\ pc' = "resolving"
  /\ UNCHANGED <<content, document, actions, actionsToUpdate, i, updates,
                 errors, cancelRequested, world, resolution, messages, validation>>

\* the call returns or throws; the rest of the iteration, and i++
ResolutionReturns ==
  /\ pc = "resolving"
  /\ \E w \in RunWorlds :
       LET action     == actionsToUpdate[i + 1]
           updateInfo == getLatestActionVersion(w)
       IN  /\ world' = w
           /\ resolution' = updateInfo
           /\ updates' = UpdatesAfter(updates, action, updateInfo)
           /\ errors' = ErrorsAfter(errors, action, updateInfo)
  /\ i' = i + 1
  /\ pc' = "loop"
  /\ UNCHANGED <<content, document, actions, actionsToUpdate, cancelRequested,
                 calls, messages, validation>>

\* after the loop: apply the updates in one edit and report
ApplyAndReport ==
  /\ pc = "loop"
  /\ i >= Len(actionsToUpdate)
  /\ LET reported == IF updates # <<>>
                       THEN Append(messages, "info: Updated actions")
                       ELSE Append(messages, "info: No actions needed updating")
     IN  /\ document' = IF updates # <<>> THEN applyUpdates(content, updates)
                        ELSE document
         /\ updates' = IF updates # <<>> THEN SortByLineDesc(updates) ELSE updates
         /\ messages' = IF errors # <<>>
                          THEN Append(reported, "warning: errors occurred during update")
                          ELSE reported
  /\ pc' = "finished"
  /\ UNCHANGED <<content, actions, actionsToUpdate, i, errors, cancelRequested,
                 calls, world, resolution, validation>>

Next ==
  \/ Preflight
  \/ BeginProgress
  \/ Cancel
  \/ ObserveCancel
  \/ StartResolution
  \/ ResolutionReturns
  \/ ApplyAndReport

Spec == Init /\ [][Next]_vars

(***************************************************************************)
(* The resolver on its own: one resolution in every world.                 *)
(***************************************************************************)
InitResolve ==
  /\ \E releases \in Answers(SeqsUpTo(ReleaseCands, MaxReleases)),
        tags \in Answers(SeqsUpTo(TagCands, MaxTags)),
        lookup \in Lookups :
       world = World(releases, lookup[1], lookup[2], tags, lookup[3], lookup[4])
  /\ resolution = NoResolution
  /\ pc = "resolve"
  /\ content = <<>>
  /\ document = <<>>
  /\ actions = <<>>
  /\ actionsToUpdate = <<>>
  /\ i = 0
  /\ updates = <<>>
  /\ errors = <<>>
  /\ cancelRequested = FALSE
  /\ calls = <<>>
  /\ messages = <<>>
  /\ validation = NoValidation

Resolve ==
  /\ pc = "resolve"
  /\ resolution' = getLatestActionVersion(world)
  /\ pc' = "resolved"
  /\ UNCHANGED <<content, document, actions, actionsToUpdate, i, updates,
                 errors, cancelRequested, calls, world, messages, validation>>

NextResolve == Resolve

SpecResolve == InitResolve /\ [][NextResolve]_vars

(***************************************************************************)
(* applyUpdates on its own: every text with every list of updates.         *)
(***************************************************************************)
TextLines == {<<>>, HeaderLine, LineUnpinned}

ReplacementLines == {LinePinnedTagged, <<"x">>}

ApplyTexts == {JoinLines(ls) : ls \in SeqsUpTo(TextLines, MaxTextLines)}

ApplyDecisions ==
  SeqsUpTo([line : -1..(MaxTextLines + 1), updated : ReplacementLines], MaxUpdates)

InitApply ==
  /\ content \in ApplyTexts
  /\ updates \in ApplyDecisions
  /\ document = content
  /\ pc = "apply"
  /\ actions = <<>>
  /\ actionsToUpdate = <<>>
  /\ i = 0
  /\ errors = <<>>
  /\ cancelRequested = FALSE
  /\ calls = <<>>
  /\ world = NoWorld
  /\ resolution = NoResolution
  /\ messages = <<>>
  /\ validation = NoValidation

Apply ==
  /\ pc = "apply"
  /\ document' = applyUpdates(content, updates)
  /\ updates' = SortByLineDesc(updates)
  /\ pc' = "applied"
  /\ UNCHANGED <<content, actions, actionsToUpdate, i, errors, cancelRequested,
                 calls, world, resolution, messages, validation>>

NextApply == Apply

SpecApply == InitApply /\ [][NextApply]_vars

(***************************************************************************)
(* parseWorkflow on its own: one step line of every shape under a header.  *)
(***************************************************************************)
ParseIndents == {<<>>, <<" "," ">>}

ParseMarkers == {<<>>, <<"-"," ">>, <<"-"," "," ">>}

PathPlain == <<"a","/","b">>
PathReusable == <<"a","c","m","e","/","t","o","o","l","s","/",".","g","i","t","h","u","b","/","w","o","r","k","f","l","o","w","s","/","d","e","p","l","o","y",".","y","m","l">>
PathSubAction == <<"a","c","m","e","/","t","o","o","l","k","i","t","/","d","i","s","t","/","s","e","t","u","p">>
PathSiblingDir == <<"a","c","m","e","/","t","o","o","l","s","/",".","g","i","t","h","u","b","/","w","o","r","k","f","l","o","w","s","-","c","o","m","m","o","n","/","s","e","t","u","p">>
PathNestedWorkflow == <<"a","c","m","e","/","t","o","o","l","s","/","c","i","/",".","g","i","t","h","u","b","/","w","o","r","k","f","l","o","w","s","/","d","e","p","l","o","y",".","y","m","l">>

ParsePaths ==
  {PathPlain, PathReusable, PathSubAction, PathSiblingDir, PathNestedWorkflow}

ParseRefs == {<<"v","2">>, HashA}

ParseComments ==
  { <<>>, <<" ","#"," ">> \o TagWord \o <<" ">> \o V422,
    <<" ","#"," ">> \o SkipMarker,
    <<" ","#"," ">> \o DashUses \o <<" ","x">>,
    <<" ","#">>,
    <<"#","#"," ","S","k","i","p","-","P","i","n","n","i","n","g"," ">> }

StepLines ==
  { indent \o marker \o UsesPrefix \o path \o <<"@">> \o ref \o comment :
      indent \in ParseIndents, marker \in ParseMarkers, path \in ParsePaths,
      ref \in ParseRefs, comment \in ParseComments }

ParseTexts == {JoinLines(<<HeaderLine, line>>) : line \in StepLines}

InitParse ==
  /\ content \in ParseTexts
  /\ document = content
  /\ pc = "parse"
  /\ actions = <<>>
  /\ actionsToUpdate = <<>>
  /\ i = 0
  /\ updates = <<>>
  /\ errors = <<>>
  /\ cancelRequested = FALSE
  /\ calls = <<>>
  /\ world = NoWorld
  /\ resolution = NoResolution
  /\ messages = <<>>
  /\ validation = NoValidation

Parse ==
  /\ pc = "parse"
  /\ actions' = parseWorkflow(content)
  /\ pc' = "parsed"
  /\ UNCHANGED <<content, document, actionsToUpdate, i, updates, errors,
                 cancelRequested, calls, world, resolution, messages, validation>>

\* the results that the lines found are rewritten to
RewriteResults == {Resolved(V422, HashB, <<>>), Resolved(Trunk, HashC, <<>>)}

\* updateActionLine and updates.push for every action of the work list,
\* with one result of the resolver
Rewrite ==
  /\ pc = "parsed"
  /\ \E updateInfo \in RewriteResults :
     \E todo \in {ActionsToUpdate(actions)} :
       /\ resolution' = updateInfo
       /\ actionsToUpdate' = todo
       /\ updates' = [k \in 1..Len(todo) |-> UpdateResultOf(todo[k], updateInfo)]
  /\ pc' = "rewritten"
  /\ UNCHANGED <<content, document, actions, i, errors, cancelRequested,
                 calls, world, messages, validation>>

NextParse == Parse \/ Rewrite

SpecParse == InitParse /\ [][NextParse]_vars

(***************************************************************************)
(* The properties.                                                         *)
(***************************************************************************)
\* the number of lines of a text: one more than its line breaks
LineCount(text) == Cardinality({k \in 1..Len(text) : text[k] = NL}) + 1

\* the 0-based line indices the decisions us name
DecidedLines(us) == {us[j].line : j \in 1..Len(us)}

\* C1: applyUpdates keeps the number of lines, leaves every line that no
\* decision names as it was, skips a decision whose index is out of range,
\* and with no decisions returns the text itself.
C1_ApplyUpdatesFrame ==
  pc = "applied" =>
    \E before \in {SplitLines(content)}, after \in {SplitLines(document)} :
      /\ LineCount(document) = LineCount(content)
      /\ Len(after) = Len(before)
      /\ \A k \in 1..Len(before) :
           (k - 1) \notin DecidedLines(updates) => after[k] = before[k]
      /\ updates = <<>> => document = content

\* an applied text with one decision in range, which changed its line, and
\* one at or beyond the number of lines
C1_Witness ==
  /\ pc = "applied"
  /\ document # content
  /\ \E j \in 1..Len(updates) : updates[j].line >= LineCount(content)
  /\ \E j \in 1..Len(updates) :
       updates[j].line >= 0 /\ updates[j].line < LineCount(content)

\* the 1-based numbers of the lines of a text that are references carrying
\* the opt-out marker in their comment
SkipLines(text) ==
  The({ {k \in 1..Len(lines) :
           \E m \in {ACTION_REGEX(lines[k])} :
             m.matched /\ Includes(LowerStr(m.comment), SkipMarker)}
        : lines \in {SplitLines(text)} })

\* C2: a reference whose comment contains skip-pinning, in any case, is never
\* resolved, never gets a decision, and its line in the document stays the
\* original line.
C2_SkipPinningUntouched ==
  \A k \in SkipLines(content) :
    /\ \A c \in 1..Len(calls) : calls[c].line # k - 1
    /\ (k - 1) \notin DecidedLines(updates)
    /\ SplitLines(document)[k] = SplitLines(content)[k]

\* a finished run that rewrote a line of a document with a skipped reference
C2_Witness ==
  /\ pc = "finished"
  /\ document # content
  /\ SkipLines(content) # {}

\* a version given a leading "v" unless it has one
WithV(version) ==
  IF version # <<>> /\ version[1] = "v" THEN version ELSE <<"v">> \o version

\* C3: a successful resolution of a reference of the work list adds a
\* decision for its line unless the current ref is 40 characters long and
\* either its comment has a version that equals the resolved version once
\* both have a leading "v", or the ref is the resolved commit.  A 40-character
\* ref with the comment "tag v4.2.2" gets none when v4.2.2 or 4.2.2 is
\* resolved; a ref of any other length always gets one.
C3_DecisionRule ==
  [][ (pc = "resolving" /\ pc' = "loop" /\ resolution'.ok) =>
        \E action \in {actionsToUpdate[i + 1]} :
        \E annotated \in {extractVersionFromComment(action.currentComment)} :
        \E pinned \in {Len(action.currentRef) = 40} :
        \E decided \in {/\ Len(updates') = Len(updates) + 1
                         /\ SubSeq(updates', 1, Len(updates)) = updates
                         /\ updates'[Len(updates')].line = action.line} :
          /\ decided \/ updates' = updates
          /\ decided <=>
               ~(/\ pinned
                 /\ \/ /\ annotated # <<>>
                       /\ WithV(annotated) = WithV(resolution'.latestVersion)
                    \/ action.currentRef = resolution'.latestCommit)
          /\ (/\ pinned
              /\ action.currentComment = TagWord \o <<" ">> \o V422
              /\ resolution'.latestVersion \in {V422, V422Bare}) => ~decided
          /\ ~pinned => decided
    ]_vars

\* the reference pinned to a hash and annotated "tag v4.2.2" has been
\* resolved to 4.2.2 at another hash, and no decision was made
C3_Witness ==
  /\ pc = "loop"
  /\ i = 1
  /\ updates = <<>>
  /\ resolution.ok
  /\ resolution.latestVersion = V422Bare
  /\ Len(actionsToUpdate[1].currentRef) = 40
  /\ actionsToUpdate[1].currentComment = TagWord \o <<" ">> \o V422
  /\ resolution.latestCommit # actionsToUpdate[1].currentRef

\* C4: the commit of every resolved result is a full-length hash, on every
\* path of the resolver.
C4_FullHashAlways ==
  (pc = "resolved" /\ resolution.ok) =>
    Len(resolution.latestCommit) = FullHashLen

\* the indices of the releases that are not prereleases and whose tag is a
\* valid semantic version
StableReleases(w) ==
  IF ~w.releases.ok THEN {}
  ELSE {k \in 1..Len(w.releases.body) :
          /\ ~w.releases.body[k].prerelease
          /\ SemverValid(w.releases.body[k].tag_name)}

Requested(what) == \E k \in 1..Len(resolution.requests) : resolution.requests[k] = what

\* C5: one resolution asks for the releases first; it asks for the tag list,
\* to select from it, only when no release is stable and valid, and then
\* second; it asks for the repository and the head of its branch only after
\* an empty tag list; and it stops at the first tier with a candidate.
C5_TierOrder ==
  pc = "resolved" =>
    \E r \in {resolution.requests} :
      /\ r # <<>> /\ r[1] = "releases"
      /\ \A k \in 2..Len(r) : r[k] # "releases"
      /\ ~world.releases.ok => r = <<"releases">> /\ ~resolution.ok
      /\ StableReleases(world) # {} =>
           /\ Len(r) >= 2 /\ r[2] = "tagRef"
           /\ ~Requested("repo") /\ ~Requested("commit")
           /\ resolution.ok =>
                \E k \in StableReleases(world) :
                  world.releases.body[k].tag_name = resolution.latestVersion
      /\ (world.releases.ok /\ StableReleases(world) = {}) =>
           /\ Len(r) >= 2 /\ r[2] = "tags"
           /\ ~Requested("tagRef") /\ ~Requested("tagObject")
           /\ (world.tags.ok /\ world.tags.body # <<>>) =>
                /\ r = <<"releases", "tags">>
                /\ resolution.ok
                /\ \E k \in 1..Len(world.tags.body) :
                     world.tags.body[k].name = resolution.latestVersion
      /\ (Requested("repo") \/ Requested("commit")) =>
           /\ world.tags.ok /\ world.tags.body = <<>>
           /\ SubSeq(r, 1, 3) = <<"releases", "tags", "repo">>
           /\ \A k \in 1..Len(r) : r[k] = "commit" => k = 4

\* releases that are all prereleases or invalid, then an empty tag list,
\* then the default branch
C5_Witness ==
  /\ pc = "resolved"
  /\ resolution.ok
  /\ world.releases.ok /\ world.releases.body # <<>>
  /\ resolution.requests = <<"releases", "tags", "repo", "commit">>

\* C6: the release selected is one that is not a prerelease and has a valid
\* semantic version, and none of those is greater; prerelease v5.0.0-beta
\* with stable v4.9.0 selects v4.9.0; with no such release none is selected.
C6_MaxStableRelease ==
  (pc = "resolved" /\ world.releases.ok) =>
    /\ StableReleases(world) = {} => ~Requested("tagRef")
    /\ (StableReleases(world) # {} /\ resolution.ok) =>
         \E k \in StableReleases(world) :
           /\ world.releases.body[k].tag_name = resolution.latestVersion
           /\ \A j \in StableReleases(world) :
                SemverCompare(world.releases.body[j].tag_name,
                              world.releases.body[k].tag_name) <= 0
    /\ (/\ world.releases.body = <<Release(V500Beta, TRUE), Release(V490, FALSE)>>
        /\ resolution.ok) => resolution.latestVersion = V490

\* prerelease v5.0.0-beta listed before stable v4.9.0, and v4.9.0 resolved
C6_Witness ==
  /\ pc = "resolved"
  /\ world.releases.ok
  /\ world.releases.body = <<Release(V500Beta, TRUE), Release(V490, FALSE)>>
  /\ resolution.ok
  /\ resolution.latestVersion = V490

\* the lines of the document that no decision names are the original ones,
\* and each line a decision names is the decision's
PatchedBy(us) ==
  \E before \in {SplitLines(content)}, after \in {SplitLines(document)} :
    /\ Len(after) = Len(before)
    /\ \A k \in 1..Len(before) :
         IF (k - 1) \in DecidedLines(us)
           THEN \E j \in 1..Len(us) : us[j].line = k - 1 /\ after[k] = us[j].updated
           ELSE after[k] = before[k]

\* C7: a resolution that fails adds exactly one entry to the errors and no
\* decision, and the loop goes on to the next reference; nothing else adds
\* an error; a finished run has called the resolver for every reference of
\* the work list, and its document has the rewrite of every decision and
\* the original of every other line.
C7_FailureIsLocal ==
  /\ [][ IF pc = "resolving" /\ pc' = "loop" /\ ~resolution'.ok
           THEN /\ errors' = Append(errors,
                      [repository |-> actionsToUpdate[i + 1].repository])
                /\ updates' = updates
                /\ document' = document
                /\ i' = i + 1
           ELSE errors' = errors ]_vars
  /\ [](pc = "finished" =>
          /\ Len(calls) = Len(actionsToUpdate)
          /\ \A k \in 1..Len(calls) : calls[k].line = actionsToUpdate[k].line
          /\ Len(errors) + Len(updates) <= Len(calls)
          /\ PatchedBy(updates))

\* a finished run of two references: the first failed, the second was
\* rewritten
C7_Witness ==
  /\ pc = "finished"
  /\ Len(calls) = 2
  /\ Len(errors) = 1
  /\ Len(updates) = 1
  /\ updates[1].line = calls[2].line
  /\ document # content
  /\ SplitLines(document)[calls[1].line + 1] = SplitLines(content)[calls[1].line + 1]

\* C8: once cancellation is requested no resolution call is started, and the
\* next top of an iteration returns; the document is the original text
\* until the run finishes, and then the original text or the one
\* application of the updates to it.
C8_CancelBeforeCalls ==
  /\ [][ /\ cancelRequested => calls' = calls
         /\ (cancelRequested /\ pc = "loop" /\ i < Len(actionsToUpdate)) =>
              pc' = "cancelled" ]_vars
  /\ [](\/ document = content
        \/ /\ pc = "finished"
           /\ updates # <<>>
           /\ document = applyUpdates(content, updates))

\* cancellation observed after at least one call and before the last
C8_Witness ==
  /\ pc = "cancelled"
  /\ Len(calls) >= 1
  /\ Len(calls) < Len(actionsToUpdate)
  /\ document = content

\* C9 as stated: when cancellation is observed the updates accumulated so
\* far are still applied, so the references resolved before it are rewritten
\* in the final document.
C9_PatchAfterCancel ==
  pc = "cancelled" => document = applyUpdates(content, updates)

\* C9, amended: when cancellation is observed at the top of an iteration the
\* command returns at once, the updates accumulated are not applied and the
\* document keeps the original text; the updates are applied only by a run
\* whose loop called the resolver for every reference, which includes a
\* run cancelled while the last reference was being resolved.
C9_CancelDiscards ==
  /\ pc = "cancelled" =>
       /\ cancelRequested
       /\ Len(calls) < Len(actionsToUpdate)
       /\ document = content
  /\ document # content =>
       /\ pc = "finished"
       /\ Len(calls) = Len(actionsToUpdate)
       /\ PatchedBy(updates)

\* cancellation observed with an update accumulated that would have changed
\* the document
C9_Witness ==
  /\ pc = "cancelled"
  /\ updates # <<>>
  /\ updates[1].updated # SplitLines(content)[updates[1].line + 1]
  /\ document = content

\* the number of "/"-separated segments of a path
SegmentCount(path) == Cardinality({k \in 1..Len(path) : path[k] = "/"}) + 1

\* C10: the fullPath of every action found begins with its repository, and
\* the repository has at most two segments, whatever path the line has.
C10_RepositoryIsOwnerRepo ==
  pc = "parsed" =>
    \A k \in 1..Len(actions) :
      /\ StartsWith(actions[k].fullPath, actions[k].repository)
      /\ SegmentCount(actions[k].repository) <= 2

\* the first character of a line after its leading whitespace is "-"
BeginsWithMarker(line) ==
  \E at \in {SpanEnd(line, 1, "ws")} : at <= Len(line) /\ line[at] = "-"

\* C11: the line a reference is rewritten to is its indentation, "- " if
\* and only if the original has a sequence-item marker before uses:, then
\* "uses: ", the full path, "@", the resolved commit, " # tag " and the
\* resolved version, for every line the pattern accepts.
C11_RewrittenLineFormat ==
  pc = "rewritten" =>
    \A k \in 1..Len(updates) :
      \E action \in {actionsToUpdate[k]} :
        updates[k].updated =
          action.indentation
            \o (IF BeginsWithMarker(action.original) THEN <<"-", " ">> ELSE <<>>)
            \o <<"u","s","e","s",":"," ">> \o action.fullPath \o <<"@">>
            \o resolution.latestCommit
            \o <<" ","#"," ","t","a","g"," ">> \o resolution.latestVersion

\* C12: when the structural check of the text fails, the run gives the single
\* error outcome and stops there: no reference was extracted, no resolution
\* was called, nothing was requested and the document is as it was.
C12_InvalidSyntaxStops ==
  ~validation.valid =>
    /\ pc = "rejected"
    /\ messages = <<"error: Invalid workflow file">>
    /\ actions = <<>>
    /\ calls = <<>>
    /\ resolution = NoResolution
    /\ updates = <<>>
    /\ document = content

C12_Witness ==
  /\ validation.error = "No jobs found in workflow"
  /\ pc = "rejected"
  /\ parseWorkflow(content) # <<>>

\* the indices of the tags whose name is a valid semantic version
ValidTags(w) ==
  IF ~w.tags.ok THEN {}
  ELSE {k \in 1..Len(w.tags.body) : SemverValid(w.tags.body[k].name)}

\* C13: when no release is a candidate and the tag list is not empty, the
\* resolution succeeds from the tag list alone: with a valid semantic-version
\* tag it returns one that none exceeds, with the hash of that tag's entry;
\* with none it returns the first tag of the list with its hash; the tag ref
\* and the tag object are never requested.
C13_TagsTierSelection ==
  (/\ pc = "resolved"
   /\ world.releases.ok /\ StableReleases(world) = {}
   /\ world.tags.ok /\ world.tags.body # <<>>) =>
    \E tags \in {world.tags.body} :
      /\ resolution.ok
      /\ resolution.requests = <<"releases", "tags">>
      /\ ~Requested("tagRef") /\ ~Requested("tagObject")
      /\ ValidTags(world) # {} =>
           \E k \in ValidTags(world) :
             /\ resolution.latestVersion = tags[k].name
             /\ resolution.latestCommit = tags[k].sha
             /\ \A j \in ValidTags(world) :
                  SemverCompare(tags[j].name, tags[k].name) <= 0
      /\ ValidTags(world) = {} =>
           /\ resolution.latestVersion = tags[1].name
           /\ resolution.latestCommit = tags[1].sha

\* v4.9.0 listed before v10.0.0, and v10.0.0 resolved with its own hash
C13_Witness ==
  /\ pc = "resolved"
  /\ world.releases.ok /\ StableReleases(world) = {}
  /\ world.tags.ok
  /\ world.tags.body = <<Tag(V490, HashA), Tag(V1000, HashB)>>
  /\ resolution.ok
  /\ resolution.latestVersion = V1000 /\ resolution.latestCommit = HashB

\* C14: with an empty list of releases and an empty list of tags the
\* resolution asks for the repository and for the head of its default branch,
\* and when both answer it returns the branch name as the version (the name
\* the repository reports, 'main' when it reports none) and the head's hash
\* as the commit.
C14_DefaultBranchTier ==
  (/\ pc = "resolved"
   /\ world.releases.ok /\ world.releases.body = <<>>
   /\ world.tags.ok /\ world.tags.body = <<>>) =>
    /\ SubSeq(resolution.requests, 1, 3) = <<"releases", "tags", "repo">>
    /\ resolution.ok <=> (world.repo.ok /\ world.commit.ok)
    /\ resolution.ok =>
         /\ resolution.requests = <<"releases", "tags", "repo", "commit">>
         /\ world.repo.body # <<>> => resolution.latestVersion = world.repo.body
         /\ world.repo.body = <<>> => resolution.latestVersion = DefaultBranchName
         /\ resolution.latestCommit = world.commit.body

\* no release, no tag, default branch trunk
C14_Witness ==
  /\ pc = "resolved"
  /\ world.releases.ok /\ world.releases.body = <<>>
  /\ world.tags.ok /\ world.tags.body = <<>>
  /\ resolution.ok
  /\ resolution.latestVersion = Trunk /\ resolution.latestCommit = HashC

\* the statement '[<indent>][- ]uses: <path>@<ref>[ #<comment>]' of an action
RenderStatement(action, marker) ==
  action.indentation
    \o (IF marker THEN <<"-", " ">> ELSE <<>>)
    \o <<"u","s","e","s",":"," ">> \o action.fullPath \o <<"@">>
    \o action.currentRef
    \o (IF action.currentComment = <<>> THEN <<>>
        ELSE <<" ", "#">> \o action.currentComment)

\* C15: the action extracted from an accepted line, written back as
\* indentation, list marker, 'uses: ', full path, '@', current ref and
\* ' #' with the comment, is extracted again as one action with the same
\* repository, the same current ref and the same skip-pinning flag; this
\* holds whether the marker is taken from the start of the line or from the
\* line containing '- uses:'.
C15_ExtractRenderExtract ==
  pc = "parsed" =>
    /\ Len(actions) = 1
    /\ \A k \in 1..Len(actions) :
         \E action \in {actions[k]} :
           \A marker \in {BeginsWithMarker(action.original),
                          Includes(action.original, DashUses)} :
             \E again \in {parseWorkflow(RenderStatement(action, marker))} :
               /\ Len(again) = 1
               /\ again[1].repository = action.repository
               /\ again[1].currentRef = action.currentRef
               /\ again[1].hasSkipPinning = action.hasSkipPinning

\* a reusable workflow under a marker with two spaces, marked skip-pinning
C15_Witness ==
  /\ pc = "parsed"
  /\ Len(actions) = 1
  /\ actions[1].hasSkipPinning
  /\ actions[1].repository # actions[1].fullPath
  /\ BeginsWithMarker(actions[1].original)
  /\ ~Includes(actions[1].original, DashUses)

\* the 0-based numbers of the lines of a text that are references without
\* the opt-out marker
ReferenceLines(text) ==
  The({ {k - 1 : k \in {j \in 1..Len(lines) :
                          \E m \in {ACTION_REGEX(lines[j])} :
                            m.matched /\ ~Includes(LowerStr(m.comment), SkipMarker)}}
        : lines \in {SplitLines(text)} })

\* C16: the calls to the resolver are made one after the other in line
\* order, the k-th call for the k-th reference that is not skipped, whatever
\* repository the earlier calls were for; a call is awaited (one in flight)
\* exactly while the loop is suspended on it; and a run that finishes has
\* made as many calls as there are references that are not skipped.
C16_SequentialNoDedup ==
  \E refs \in {ReferenceLines(content)} :
    /\ \A k \in 1..Len(calls) :
         /\ calls[k].line \in refs
         /\ Cardinality({l \in refs : l < calls[k].line}) = k - 1
    /\ Len(calls) - i = (IF pc = "resolving" THEN 1 ELSE 0)
    /\ pc = "finished" => Len(calls) = Cardinality(refs)

\* a finished run with two calls for the same repository: one failed, the
\* other led to a rewrite
C16_Witness ==
  /\ pc = "finished"
  /\ Len(calls) = 2
  /\ calls[1].repository = calls[2].repository
  /\ calls[1].line < calls[2].line
  /\ Len(errors) = 1
  /\ Len(updates) = 1
  /\ ~cancelRequested

\* what a run that found these actions decides for the reference on line
\* at (0-based) when its repository resolves to updateInfo: the list of its
\* decisions, empty when the line is skipped or up to date
DecisionsOnLine(found, at, updateInfo) ==
  The({ IF here = <<>> THEN <<>> ELSE UpdatesAfter(<<>>, here[1], updateInfo)
        : here \in {SelectSeq(ActionsToUpdate(found), LAMBDA a : a.line = at)} })

\* C17: after a run that finished, a second run on the patched document in
\* which each repository resolves to the same version and the same
\* 40-character commit as in the first makes no decision for a line the
\* first run rewrote, whether the version is a semantic version, another
\* tag name or a branch name: the rewritten line is still a reference to
\* the same repository, and applying the second run's decisions leaves the
\* document as it is.
C17_RerunIsFixpoint ==
  pc = "finished" =>
    \E found \in {parseWorkflow(document)} :
      \A k \in 1..Len(updates) :
        \E u \in {updates[k]} :
          Len(u.newCommit) = FullHashLen =>
            \E again \in {DecisionsOnLine(found, u.line,
                              Resolved(u.newVersion, u.newCommit, <<>>))} :
              /\ again = <<>>
              /\ \E j \in 1..Len(found) :
                   found[j].line = u.line /\ found[j].repository = u.repository
              /\ applyUpdates(document, again) = document

\* a finished run that rewrote one line to a branch name and another to a
\* tag that is not a semantic version
C17_Witness ==
  /\ pc = "finished"
  /\ Len(updates) = 2
  /\ \A k \in 1..2 : Len(updates[k].newCommit) = FullHashLen
  /\ \E k \in 1..2 : updates[k].newVersion = Trunk
  /\ \E k \in 1..2 : updates[k].newVersion = V4
  /\ document # content

\* the last request of the resolution
LastRequest == resolution.requests[Len(resolution.requests)]

\* C18: a failed request for the releases or for the tag list fails the
\* resolution there, with no request after it; the tag list is asked for as
\* a tier only after releases that answered without a candidate, and the
\* repository only after a tag list that answered empty; but when the tag
\* ref (or the tag object) of the selected release fails, the tag list is
\* requested in its place and, if it answers, the resolution succeeds with
\* the selected release and the commit listed for a tag of that name.
C18_FallbackNotOnError ==
  pc = "resolved" =>
    \E r \in {resolution.requests} :
      /\ ~world.releases.ok => (~resolution.ok /\ r = <<"releases">>)
      /\ (Requested("tags") /\ ~world.tags.ok) =>
           (~resolution.ok /\ LastRequest = "tags")
      /\ (Len(r) >= 2 /\ r[2] = "tags") =>
           (world.releases.ok /\ StableReleases(world) = {})
      /\ Requested("repo") =>
           /\ world.releases.ok /\ StableReleases(world) = {}
           /\ world.tags.ok /\ world.tags.body = <<>>
      /\ (/\ StableReleases(world) # {}
          /\ \/ ~world.tagRef.ok
             \/ world.tagRef.body.type = "tag" /\ ~world.tagObject.ok) =>
           /\ LastRequest = "tags"
           /\ r \in {<<"releases", "tagRef", "tags">>,
                      <<"releases", "tagRef", "tagObject", "tags">>}
           /\ resolution.ok <=> world.tags.ok
           /\ resolution.ok =>
                /\ \E k \in StableReleases(world) :
                     world.releases.body[k].tag_name = resolution.latestVersion
                /\ \A k \in 1..Len(world.tags.body) :
                     (/\ world.tags.body[k].name = resolution.latestVersion
                      /\ \A j \in 1..(k - 1) :
                           world.tags.body[j].name # resolution.latestVersion)
                       => resolution.latestCommit = world.tags.body[k].sha

\* the tag ref of the selected release v4.9.0 fails and the commit comes
\* from the tag list
C18_Witness ==
  /\ pc = "resolved"
  /\ StableReleases(world) # {}
  /\ ~world.tagRef.ok
  /\ resolution.ok
  /\ resolution.requests = <<"releases", "tagRef", "tags">>
  /\ resolution.latestVersion = V490
  /\ resolution.latestCommit = HashA

====
